---- MODULE Spec2Model ----
(***************************************************************************)
(* runtime/debug/mod.go: the text codec of the embedded build information. *)
(* Byte strings are sequences of one-character strings, so that cutting at *)
(* newlines, splitting at tabs and prefix tests are computed on the bytes. *)
(***************************************************************************)
EXTENDS Integers, Sequences, FiniteSets, TLC

VARIABLES x, input, data, bi, last, lineNum, err, pc, ret, blob, out, recv

vars == <<x, input, data, bi, last, lineNum, err, pc, ret, blob, out, recv>>

(***************************************************************************)
(* Bounds of the model.                                                    *)
(***************************************************************************)
MaxLines == 3
MaxDeps == 2

(***************************************************************************)
(* The numbers of ReadBuildInfo: the least length of the string modinfo()  *)
(* returns for a binary with module support, and the length of each of the *)
(* two markers around the text.                                            *)
(***************************************************************************)
MinLen == 32
FrameLen == 16

(***************************************************************************)
(* Bytes and the literals of UnmarshalText.                                *)
(***************************************************************************)
tab == "\t"
newline == "\n"

pathLine == <<"p", "a", "t", "h", tab>>
modLine == <<"m", "o", "d", tab>>
depLine == <<"d", "e", "p", tab>>
repLine == <<"=", ">", tab>>

devel == <<"(", "d", "e", "v", "e", "l", ")">>

(***************************************************************************)
(* type Module, type BuildInfo.  A nil *Module is the empty sequence, a    *)
(* non-nil one the one-element sequence of the module pointed to.          *)
(***************************************************************************)
Module(p, v, s, r) == [Path |-> p, Version |-> v, Sum |-> s, Replace |-> r]

ZeroModule == Module(<<>>, <<>>, <<>>, <<>>)

BuildInfo(p, m, d) == [Path |-> p, Main |-> m, Deps |-> d]

ZeroBuildInfo == BuildInfo(<<>>, ZeroModule, <<>>)

(***************************************************************************)
(* The error values of UnmarshalText before the deferred wrapping.         *)
(***************************************************************************)
NoErr == [kind |-> "nil", got |-> 0]
ErrModCols(n) == [kind |-> "expected 2 or 3 columns", got |-> n]
ErrRepCols(n) == [kind |-> "expected 3 columns for replacement", got |-> n]
ErrNoModule == [kind |-> "replacement with no module on previous line", got |-> 0]

(***************************************************************************)
(* bytes.Index, bytes.Cut, bytes.Split, bytes.HasPrefix for a one-byte     *)
(* separator.                                                              *)
(***************************************************************************)
Index(s, sep) ==
    IF \E i \in 1..Len(s) : s[i] = sep
    THEN CHOOSE i \in 1..Len(s) : s[i] = sep /\ \A j \in 1..(i - 1) : s[j] # sep
    ELSE 0

Cut(s, sep) ==
    LET i == Index(s, sep)
    IN IF i = 0
       THEN [before |-> s, after |-> <<>>, found |-> FALSE]
       ELSE [before |-> SubSeq(s, 1, i - 1),
             after |-> SubSeq(s, i + 1, Len(s)),
             found |-> TRUE]

RECURSIVE Split(_, _)
Split(s, sep) ==
    LET i == Index(s, sep)
    IN IF i = 0
       THEN <<s>>
       ELSE <<SubSeq(s, 1, i - 1)>> \o Split(SubSeq(s, i + 1, Len(s)), sep)

HasPrefix(s, prefix) ==
    Len(s) >= Len(prefix) /\ SubSeq(s, 1, Len(prefix)) = prefix

(***************************************************************************)
(* MarshalText.                                                            *)
(***************************************************************************)
\* formatMod writing no checksum column
RECURSIVE formatModNoChecksum(_, _)
formatModNoChecksum(word, m) ==
    LET mv == IF m.Version = <<>> THEN devel ELSE m.Version
    IN word \o <<tab>> \o m.Path \o <<tab>> \o mv
       \o (IF m.Replace = <<>>
           THEN <<>>
           ELSE <<newline>> \o formatModNoChecksum(<<"=", ">">>, m.Replace[1]))
       \o <<newline>>

\* formatMod writing the version as stored
RECURSIVE formatModStoredVersion(_, _)
formatModStoredVersion(word, m) ==
    word \o <<tab>> \o m.Path \o <<tab>> \o m.Version
    \o (IF m.Replace = <<>>
        THEN <<tab>> \o m.Sum
        ELSE <<newline>> \o formatModStoredVersion(<<"=", ">">>, m.Replace[1]))
    \o <<newline>>

RECURSIVE formatMod(_, _)
formatMod(word, m) ==
    LET mv == IF m.Version = <<>> THEN devel ELSE m.Version
    IN word \o <<tab>> \o m.Path \o <<tab>> \o mv
       \o (IF m.Replace = <<>>
           THEN <<tab>> \o m.Sum
           ELSE <<newline>> \o formatMod(<<"=", ">">>, m.Replace[1]))
       \o <<newline>>

RECURSIVE formatDeps(_)
formatDeps(deps) ==
    IF deps = <<>>
    THEN <<>>
    ELSE formatMod(<<"d", "e", "p">>, Head(deps)) \o formatDeps(Tail(deps))

\* MarshalText writing the main module whatever its path
MarshalTextMainAlways(b) ==
    (IF b.Path # <<>> THEN pathLine \o b.Path \o <<newline>> ELSE <<>>)
    \o formatMod(<<"m", "o", "d">>, b.Main)
    \o formatDeps(b.Deps)

MarshalText(b) ==
    (IF b.Path # <<>> THEN pathLine \o b.Path \o <<newline>> ELSE <<>>)
    \o (IF b.Main.Path # <<>> THEN formatMod(<<"m", "o", "d">>, b.Main) ELSE <<>>)
    \o formatDeps(b.Deps)

(***************************************************************************)
(* UnmarshalText.  The local state of one call is the record               *)
(* [data, bi, last, lineNum, err, pc]; last is <<>> for nil, <<0>> for     *)
(* &bi.Main and <<i>> for the pointer stored at bi.Deps[i].                *)
(***************************************************************************)
\* readModuleLine refusing only fewer than 2 columns
readModuleLineAtLeastTwo(elem) ==
    IF Len(elem) < 2
    THEN [m |-> ZeroModule, err |-> ErrModCols(Len(elem))]
    ELSE [m |-> Module(elem[1], elem[2],
                       IF Len(elem) >= 3 THEN elem[3] ELSE <<>>, <<>>),
          err |-> NoErr]

readModuleLine(elem) ==
    IF Len(elem) # 2 /\ Len(elem) # 3
    THEN [m |-> ZeroModule, err |-> ErrModCols(Len(elem))]
    ELSE [m |-> Module(elem[1], elem[2],
                       IF Len(elem) = 3 THEN elem[3] ELSE <<>>, <<>>),
          err |-> NoErr]

\* *last = m, for a non-nil last
Store(b, l, m) ==
    IF l[1] = 0
    THEN [b EXCEPT !.Main = m]
    ELSE [b EXCEPT !.Deps[l[1]] = m]

\* *last, for a non-nil last
Load(b, l) == IF l[1] = 0 THEN b.Main ELSE b.Deps[l[1]]

\* a return statement that records the error and lets the loop go on
ReturnedGoesOn(d, e) == [d EXCEPT !.err = e]

\* the return statements inside the loop leave lineNum as it is
Returned(d, e) == [d EXCEPT !.err = e, !.pc = "return"]

\* the end of the loop body
Advance(d) == [d EXCEPT !.lineNum = @ + 1]

casePath(d, line) ==
    Advance([d EXCEPT !.bi.Path = SubSeq(line, Len(pathLine) + 1, Len(line))])

\* the mod case leaving the main module's Replace as it was
caseModKeepsReplace(d, line) ==
    LET elem == Split(SubSeq(line, Len(modLine) + 1, Len(line)), tab)
        r == readModuleLine(elem)
        m == [r.m EXCEPT !.Replace = d.bi.Main.Replace]
        d1 == [d EXCEPT !.last = <<0>>, !.bi = Store(d.bi, <<0>>, m)]
    IN IF r.err # NoErr THEN Returned(d1, r.err) ELSE Advance(d1)

caseMod(d, line) ==
    LET elem == Split(SubSeq(line, Len(modLine) + 1, Len(line)), tab)
        r == readModuleLine(elem)
        d1 == [d EXCEPT !.last = <<0>>, !.bi = Store(d.bi, <<0>>, r.m)]
    IN IF r.err # NoErr THEN Returned(d1, r.err) ELSE Advance(d1)

\* the dep case putting the new module in front
caseDepInFront(d, line) ==
    LET elem == Split(SubSeq(line, Len(depLine) + 1, Len(line)), tab)
        r == readModuleLine(elem)
        d1 == [d EXCEPT !.last = <<1>>, !.bi.Deps = <<r.m>> \o d.bi.Deps]
    IN IF r.err # NoErr
       THEN [d1 EXCEPT !.err = r.err, !.pc = "return"]
       ELSE [d1 EXCEPT !.lineNum = @ + 1]

caseDep(d, line) ==
    LET elem == Split(SubSeq(line, Len(depLine) + 1, Len(line)), tab)
        r == readModuleLine(elem)
        d1 == [d EXCEPT !.last = <<Len(d.bi.Deps) + 1>>,
                        !.bi.Deps = Append(d.bi.Deps, r.m)]
    IN IF r.err # NoErr THEN Returned(d1, r.err) ELSE Advance(d1)

\* the => case without its last = nil
caseRepKeepsTarget(d, line) ==
    LET elem == Split(SubSeq(line, Len(repLine) + 1, Len(line)), tab)
    IN IF Len(elem) # 3
       THEN [d EXCEPT !.err = ErrRepCols(Len(elem)), !.pc = "return"]
       ELSE IF d.last = <<>>
       THEN [d EXCEPT !.err = ErrNoModule, !.pc = "return"]
       ELSE [d EXCEPT
                !.bi = IF d.last[1] = 0
                       THEN [d.bi EXCEPT !.Main.Replace =
                               <<Module(elem[1], elem[2], elem[3], <<>>)>>]
                       ELSE [d.bi EXCEPT !.Deps[d.last[1]].Replace =
                               <<Module(elem[1], elem[2], elem[3], <<>>)>>],
                !.lineNum = @ + 1]

\* the => case pushing the new replacement in front of the one already there
caseRepChained(d, line) ==
    LET elem == Split(SubSeq(line, Len(repLine) + 1, Len(line)), tab)
    IN IF Len(elem) # 3
       THEN [d EXCEPT !.err = ErrRepCols(Len(elem)), !.pc = "return"]
       ELSE IF d.last = <<>>
       THEN [d EXCEPT !.err = ErrNoModule, !.pc = "return"]
       ELSE [d EXCEPT
                !.bi = IF d.last[1] = 0
                       THEN [d.bi EXCEPT !.Main.Replace =
                               <<Module(elem[1], elem[2], elem[3], d.bi.Main.Replace)>>]
                       ELSE [d.bi EXCEPT !.Deps[d.last[1]].Replace =
                               <<Module(elem[1], elem[2], elem[3],
                                        d.bi.Deps[d.last[1]].Replace)>>],
                !.lineNum = @ + 1]

\* the => case testing the target before the columns
caseRepTargetFirst(d, line) ==
    LET elem == Split(SubSeq(line, Len(repLine) + 1, Len(line)), tab)
    IN IF d.last = <<>>
       THEN [d EXCEPT !.err = ErrNoModule, !.pc = "return"]
       ELSE IF Len(elem) # 3
       THEN [d EXCEPT !.err = ErrRepCols(Len(elem)), !.pc = "return"]
       ELSE [d EXCEPT
                !.bi = IF d.last[1] = 0
                       THEN [d.bi EXCEPT !.Main.Replace =
                               <<Module(elem[1], elem[2], elem[3], <<>>)>>]
                       ELSE [d.bi EXCEPT !.Deps[d.last[1]].Replace =
                               <<Module(elem[1], elem[2], elem[3], <<>>)>>],
                !.last = <<>>,
                !.lineNum = @ + 1]

caseRep(d, line) ==
    LET elem == Split(SubSeq(line, Len(repLine) + 1, Len(line)), tab)
    IN IF Len(elem) # 3
       THEN Returned(d, ErrRepCols(Len(elem)))
       ELSE IF d.last = <<>>
       THEN Returned(d, ErrNoModule)
       ELSE Advance([d EXCEPT
                !.bi = Store(d.bi, d.last,
                             [Load(d.bi, d.last) EXCEPT
                                 !.Replace = <<Module(elem[1], elem[2], elem[3], <<>>)>>]),
                !.last = <<>>])

\* the switch counting only the lines it recognizes
scanLineCountsRecognized(d, line) ==
    CASE HasPrefix(line, pathLine) -> casePath(d, line)
      [] ~HasPrefix(line, pathLine) /\ HasPrefix(line, modLine) -> caseMod(d, line)
      [] ~HasPrefix(line, pathLine) /\ ~HasPrefix(line, modLine)
         /\ HasPrefix(line, depLine) -> caseDep(d, line)
      [] ~HasPrefix(line, pathLine) /\ ~HasPrefix(line, modLine)
         /\ ~HasPrefix(line, depLine) /\ HasPrefix(line, repLine) -> caseRep(d, line)
      [] OTHER -> d

\* the switch of the loop body, on a line that bytes.Cut found terminated
scanLine(d, line) ==
    CASE HasPrefix(line, pathLine) -> casePath(d, line)
      [] ~HasPrefix(line, pathLine) /\ HasPrefix(line, modLine) -> caseMod(d, line)
      [] ~HasPrefix(line, pathLine) /\ ~HasPrefix(line, modLine)
         /\ HasPrefix(line, depLine) -> caseDep(d, line)
      [] ~HasPrefix(line, pathLine) /\ ~HasPrefix(line, modLine)
         /\ ~HasPrefix(line, depLine) /\ HasPrefix(line, repLine) -> caseRep(d, line)
      [] OTHER -> Advance(d)

\* the loop reading the bytes after the last newline as one more line
iterateReadsTail(d) ==
    IF Len(d.data) = 0
    THEN [d EXCEPT !.pc = "return"]
    ELSE LET c == Cut(d.data, newline)
         IN scanLine([d EXCEPT !.data = c.after], c.before)

\* one evaluation of the loop condition and, if it holds, of the loop body
iterate(d) ==
    IF Len(d.data) = 0
    THEN [d EXCEPT !.pc = "return"]
    ELSE LET c == Cut(d.data, newline)
         IN IF ~c.found
            THEN [d EXCEPT !.data = c.after, !.pc = "return"]
            ELSE scanLine([d EXCEPT !.data = c.after], c.before)

\* the entry leaving the receiver b as the caller handed it over
enterKeepsReceiver(b, text) ==
    [data |-> text, bi |-> b, last |-> <<>>, lineNum |-> 1,
     err |-> NoErr, pc |-> "loop"]

\* *bi = BuildInfo{}; lineNum := 1; var last *Module; b is what *bi held
enter(b, text) ==
    [data |-> text, bi |-> ZeroBuildInfo, last |-> <<>>, lineNum |-> 1,
     err |-> NoErr, pc |-> "loop"]

\* the nil error as UnmarshalText returns it
Nil == [kind |-> "nil", got |-> 0, line |-> 0]

\* the deferred function: the error returned carries lineNum
wrap(d) ==
    IF d.err # NoErr
    THEN [kind |-> d.err.kind, got |-> d.err.got, line |-> d.lineNum]
    ELSE [kind |-> "nil", got |-> 0, line |-> 0]

RECURSIVE run(_)
run(d) == IF d.pc = "return" THEN d ELSE run(iterate(d))

\* UnmarshalText into a receiver holding b: the receiver and the error after it
UnmarshalInto(b, text) ==
    LET d == run(enter(b, text)) IN [bi |-> d.bi, err |-> wrap(d)]

\* UnmarshalText into a new BuildInfo, bi := &BuildInfo{}
UnmarshalText(text) == UnmarshalInto(ZeroBuildInfo, text)

(***************************************************************************)
(* ReadBuildInfo on the string b that modinfo() returns.  A nil *BuildInfo *)
(* is the empty sequence.                                                  *)
(***************************************************************************)
NotFound == [info |-> <<>>, ok |-> FALSE]

Found(b) == [info |-> <<b>>, ok |-> TRUE]

\* the length test admitting only strings longer than MinLen
hasInfoAbove(b) == Len(b) > MinLen

\* not len(data) < 32
hasInfo(b) == ~(Len(b) < MinLen)

\* data[16 : len(data)-16]
payload(b) == SubSeq(b, FrameLen + 1, Len(b) - FrameLen)

ReadBuildInfo(b) ==
    IF ~hasInfo(b)
    THEN NotFound
    ELSE LET r == UnmarshalText(payload(b))
         IN IF r.err # Nil THEN NotFound ELSE Found(r.bi)

(***************************************************************************)
(* The inputs of the model.                                                *)
(***************************************************************************)
LineSet ==
    { pathLine \o <<"p">>,
      pathLine \o <<"q">>,
      modLine \o <<"a", tab, "v">>,
      modLine \o <<"a", tab, "v", tab, "s">>,
      modLine,
      modLine \o <<"a", tab, "v", tab, "s", tab, "x">>,
      depLine \o <<"b", tab, "v", tab, "s">>,
      depLine \o <<"b", tab, "w">>,
      depLine \o <<tab, "v">>,
      depLine \o <<"b">>,
      repLine \o <<"c", tab, "v", tab, "s">>,
      repLine \o <<"c">>,
      <<>>,
      <<"m", "o", "d">> }

\* what may follow the last newline of an input
TailSet == { <<>>, depLine \o <<"b">> }

RECURSIVE JoinLines(_)
JoinLines(ls) ==
    IF ls = <<>> THEN <<>> ELSE Head(ls) \o <<newline>> \o JoinLines(Tail(ls))

Texts ==
    { JoinLines(ls) \o t :
        ls \in UNION { [1..n -> LineSet] : n \in 0..MaxLines }, t \in TailSet }

\* the texts that end with their last line
WholeTexts == { t \in Texts : t = <<>> \/ t[Len(t)] = newline }

\* what the receiver may hold before the call
Receivers ==
    { ZeroBuildInfo,
      BuildInfo(<<"q">>, Module(<<"a">>, <<"v">>, <<"s">>, <<>>),
                <<Module(<<"b">>, <<"v">>, <<>>, <<>>)>>) }

\* the strings of the fields of a BuildInfo handed to MarshalText
PathVals == { <<>>, <<"a">> }
VersionVals == { <<>>, <<"v">> }
SumVals == { <<>>, <<"s">> }

\* the modules a Replace field may point to; the last one is itself replaced
Replacements ==
    { Module(<<"b">>, <<"w">>, <<"s">>, <<>>),
      Module(<<"b">>, <<>>, <<>>, <<>>),
      Module(<<"b">>, <<"w">>, <<"s">>, <<Module(<<"c">>, <<"w">>, <<"s">>, <<>>)>>) }

MainModules ==
    { Module(p, v, s, r) :
        p \in PathVals, v \in VersionVals, s \in SumVals,
        r \in {<<>>} \cup { <<m>> : m \in Replacements } }

DepModules ==
    { Module(p, v, <<"s">>, <<>>) : p \in PathVals, v \in VersionVals }
    \cup { Module(p, v, <<>>, <<m>>) :
             p \in PathVals, v \in VersionVals,
             m \in { Module(<<"b">>, <<>>, <<"s">>, <<>>) } }

DepSeqs == UNION { [1..n -> DepModules] : n \in 0..MaxDeps }

\* BuildInfo values with a tab or a newline inside a field
OddInfos ==
    { BuildInfo(<<"p", newline, "q">>, Module(<<"a">>, <<"v">>, <<"s">>, <<>>), <<>>),
      BuildInfo(<<"p">>, Module(<<"a">>, <<"v">>, <<"s", tab, "t">>, <<>>),
                <<Module(<<"a">>, <<"v">>, <<"s">>, <<>>)>>),
      BuildInfo(<<"p", tab, "q">>, ZeroModule,
                <<Module(<<"a", tab, "b">>, <<"v">>, <<>>,
                         <<Module(<<"b">>, <<"w">>, <<"s">>, <<>>)>>)>>),
      BuildInfo(<<>>, Module(<<"a">>, <<"v">>, <<>>,
                             <<Module(<<"b">>, <<"w">>, <<"s", tab, "t">>, <<>>)>>),
                <<>>) }

Infos ==
    { BuildInfo(p, m, d) : p \in { <<>>, <<"p">> }, m \in MainModules, d \in DepSeqs }
    \cup OddInfos

(***************************************************************************)
(* The state machine of one call of UnmarshalText on any text, into a new  *)
(* BuildInfo.                                                              *)
(***************************************************************************)
Cur == [data |-> data, bi |-> bi, last |-> last, lineNum |-> lineNum,
        err |-> err, pc |-> pc]

Becomes(d) ==
    /\ data' = d.data
    /\ bi' = d.bi
    /\ last' = d.last
    /\ lineNum' = d.lineNum
    /\ err' = d.err
    /\ pc' = d.pc

NoReturn == [kind |-> "none", got |-> 0, line |-> 0]

Init ==
    /\ x = ZeroBuildInfo
    /\ input \in Texts
    /\ data = <<>>
    /\ bi = ZeroBuildInfo
    /\ last = <<>>
    /\ lineNum = 0
    /\ err = NoErr
    /\ pc = "call"
    /\ ret = NoReturn
    /\ blob = <<>>
    /\ out = NotFound
    /\ recv = bi

Enter ==
    /\ pc = "call"
    /\ Becomes(enter(bi, input))
    /\ UNCHANGED <<x, input, ret, blob, out, recv>>

LoopEnd ==
    /\ pc = "loop"
    /\ ~Cut(data, newline).found
    /\ Becomes(iterate(Cur))
    /\ UNCHANGED <<x, input, ret, blob, out, recv>>

ScanLine ==
    /\ pc = "loop"
    /\ Cut(data, newline).found
    /\ Becomes(iterate(Cur))
    /\ UNCHANGED <<x, input, ret, blob, out, recv>>

Return ==
    /\ pc = "return"
    /\ ret' = wrap(Cur)
    /\ pc' = "done"
    /\ UNCHANGED <<x, input, data, bi, last, lineNum, err, blob, out, recv>>

Next == Enter \/ LoopEnd \/ ScanLine \/ Return

Spec == Init /\ [][Next]_vars

(***************************************************************************)
(* One call of UnmarshalText on a receiver that may hold something; recv   *)
(* keeps what it held.                                                     *)
(***************************************************************************)
InitRecv ==
    /\ x = ZeroBuildInfo
    /\ input \in WholeTexts
    /\ data = <<>>
    /\ bi \in Receivers
    /\ last = <<>>
    /\ lineNum = 0
    /\ err = NoErr
    /\ pc = "call"
    /\ ret = NoReturn
    /\ blob = <<>>
    /\ out = NotFound
    /\ recv = bi

SpecRecv == InitRecv /\ [][Next]_vars

(***************************************************************************)
(* MarshalText of a BuildInfo followed by UnmarshalText of its output into *)
(* a fresh BuildInfo.                                                      *)
(***************************************************************************)
InitRT ==
    /\ x \in Infos
    /\ input = <<>>
    /\ data = <<>>
    /\ bi = ZeroBuildInfo
    /\ last = <<>>
    /\ lineNum = 0
    /\ err = NoErr
    /\ pc = "marshal"
    /\ ret = NoReturn
    /\ blob = <<>>
    /\ out = NotFound
    /\ recv = bi

Marshal ==
    /\ pc = "marshal"
    /\ input' = MarshalText(x)
    /\ pc' = "call"
    /\ UNCHANGED <<x, data, bi, last, lineNum, err, ret, blob, out, recv>>

NextRT == Marshal \/ Enter \/ LoopEnd \/ ScanLine \/ Return

SpecRT == InitRT /\ [][NextRT]_vars

(***************************************************************************)
(* ReadBuildInfo: the string of modinfo() is any of Blobs.                 *)
(***************************************************************************)
StartFrame == [i \in 1..FrameLen |-> "0"]

EndFrame == <<newline>> \o [i \in 1..(FrameLen - 1) |-> "1"]

FramedBlobs == { StartFrame \o t \o EndFrame : t \in Texts }

ShortBlobs == { <<>> } \cup { SubSeq(b, 1, MinLen - 1) : b \in FramedBlobs }

Blobs == FramedBlobs \cup ShortBlobs

InitRBI ==
    /\ x = ZeroBuildInfo
    /\ input = <<>>
    /\ data = <<>>
    /\ bi = ZeroBuildInfo
    /\ last = <<>>
    /\ lineNum = 0
    /\ err = NoErr
    /\ pc = "read"
    /\ ret = NoReturn
    /\ blob \in Blobs
    /\ out = NotFound
    /\ recv = bi

\* if len(data) < 32 { return nil, false }
Absent ==
    /\ pc = "read"
    /\ ~hasInfo(blob)
    /\ out' = NotFound
    /\ pc' = "exit"
    /\ UNCHANGED <<x, input, data, bi, last, lineNum, err, ret, blob, recv>>

\* data = data[16 : len(data)-16]; bi := &BuildInfo{}
Slice ==
    /\ pc = "read"
    /\ hasInfo(blob)
    /\ input' = payload(blob)
    /\ bi' = ZeroBuildInfo
    /\ pc' = "call"
    /\ UNCHANGED <<x, data, last, lineNum, err, ret, blob, out, recv>>

\* the two returns after bi.UnmarshalText
Deliver ==
    /\ pc = "done"
    /\ out' = IF ret # Nil THEN NotFound ELSE Found(bi)
    /\ pc' = "exit"
    /\ UNCHANGED <<x, input, data, bi, last, lineNum, err, ret, blob, recv>>

NextRBI == Absent \/ Slice \/ Enter \/ LoopEnd \/ ScanLine \/ Return \/ Deliver

SpecRBI == InitRBI /\ [][NextRBI]_vars

(***************************************************************************)
(* Both kinds of call: UnmarshalText of any text, and of MarshalText's     *)
(* output.                                                                 *)
(***************************************************************************)
InitAll == Init \/ InitRT

SpecAll == InitAll /\ [][NextRT]_vars

(***************************************************************************)
(* What a state says about the text read so far.  The lines consumed are   *)
(* recovered from the argument and the unread rest, not from the decoder's *)
(* own variables.                                                          *)
(***************************************************************************)
Started == pc \in {"loop", "return", "done"}

Consumed == SubSeq(input, 1, Len(input) - Len(data))

RECURSIVE LinesOf(_)
LinesOf(text) ==
    LET c == Cut(text, newline)
    IN IF ~c.found THEN <<>> ELSE <<c.before>> \o LinesOf(c.after)

ConsumedLines == LinesOf(Consumed)

Class(line) ==
    CASE HasPrefix(line, pathLine) -> "path"
      [] HasPrefix(line, modLine) -> "mod"
      [] HasPrefix(line, depLine) -> "dep"
      [] HasPrefix(line, repLine) -> "rep"
      [] OTHER -> "other"

Cols(line) ==
    LET k == CASE Class(line) = "mod" -> Len(modLine)
               [] Class(line) = "dep" -> Len(depLine)
               [] Class(line) = "rep" -> Len(repLine)
               [] OTHER -> 0
    IN Split(SubSeq(line, k + 1, Len(line)), tab)

WellFormedRep(line) == Class(line) = "rep" /\ Len(Cols(line)) = 3

Front(ls) == SubSeq(ls, 1, Len(ls) - 1)

\* the index of the latest mod or dep line of ls, 0 if there is none
LatestIntro(ls) ==
    LET I == { i \in 1..Len(ls) : Class(ls[i]) \in {"mod", "dep"} }
    IN IF I = {} THEN 0 ELSE CHOOSE i \in I : \A j \in I : j <= i

\* a mod or dep line was read and no well-formed => line after the latest one
HistPending(ls) ==
    LET i == LatestIntro(ls)
    IN i > 0 /\ \A j \in (i + 1)..Len(ls) : ~WellFormedRep(ls[j])

\* the module of b that the latest mod or dep line of ls introduced
HistTarget(b, ls) ==
    LET i == LatestIntro(ls)
    IN IF Class(ls[i]) = "mod"
       THEN b.Main
       ELSE b.Deps[Cardinality({ j \in 1..i : Class(ls[j]) = "dep" })]

Failed == pc \in {"return", "done"} /\ err # NoErr

(***************************************************************************)
(* C3: a well-formed => line read while a mod/dep module awaits its        *)
(* replacement sets that module's Replace and clears the target; read      *)
(* while none awaits it (no mod/dep line so far, or the latest one already *)
(* replaced) it fails with "replacement with no module on previous line".  *)
(* So the second of two consecutive well-formed => lines fails, and so     *)
(* does a => line that is the first line, at line 1.                       *)
(***************************************************************************)
ReplaceAttachesThenClears ==
    Started =>
        LET ls == ConsumedLines
            n == Len(ls)
        IN /\ (n >= 1 /\ WellFormedRep(ls[n])) =>
                IF HistPending(Front(ls))
                THEN /\ err = NoErr
                     /\ last = <<>>
                     /\ HistTarget(bi, Front(ls)).Replace
                          = <<Module(Cols(ls[n])[1], Cols(ls[n])[2], Cols(ls[n])[3], <<>>)>>
                ELSE /\ err = ErrNoModule
                     /\ lineNum = n
           /\ (n >= 2 /\ WellFormedRep(ls[n - 1]) /\ Class(ls[n]) = "rep") =>
                err # NoErr /\ lineNum = n
           /\ (n = 1 /\ Class(ls[1]) = "rep") => err # NoErr /\ lineNum = 1

\* the second of two consecutive well-formed => lines after a dep line failed
SecondReplaceRejected ==
    /\ pc = "done"
    /\ ret.kind = ErrNoModule.kind
    /\ Len(ConsumedLines) = 3
    /\ Class(ConsumedLines[1]) = "dep"
    /\ WellFormedRep(ConsumedLines[2])
    /\ WellFormedRep(ConsumedLines[3])
    /\ bi.Deps[1].Replace # <<>>

(***************************************************************************)
(* C4: a => line is accepted only when the line directly before it is a    *)
(* mod or dep line.                                                        *)
(***************************************************************************)
ReplaceOnlyDirectlyAfterModule ==
    Started =>
        LET ls == ConsumedLines
            n == Len(ls)
        IN (n >= 1 /\ Class(ls[n]) = "rep" /\ err = NoErr) =>
              n >= 2 /\ Class(ls[n - 1]) \in {"mod", "dep"}

(***************************************************************************)
(* C5: the line number of an error is the 1-based index of the offending   *)
(* line among all terminated lines of the input, every earlier line        *)
(* counted once, recognized or not.                                        *)
(***************************************************************************)
ErrorLineIsInputLine ==
    /\ Failed =>
         /\ lineNum = Len(ConsumedLines)
         /\ Consumed = JoinLines(ConsumedLines)
         /\ Class(ConsumedLines[Len(ConsumedLines)]) \in {"mod", "dep", "rep"}
    /\ (pc = "done" /\ err # NoErr) => ret.line = Len(ConsumedLines)
    /\ (pc = "done" /\ err = NoErr) => ret.kind = "nil"

\* an error at line 3 after a blank line and an unrecognized line
ErrorAfterUncountedKinds ==
    /\ pc = "done"
    /\ ret.kind # "nil"
    /\ ret.line = 3
    /\ Class(ConsumedLines[1]) = "other"
    /\ Class(ConsumedLines[2]) = "other"
    /\ ConsumedLines[1] # ConsumedLines[2]

Replaced(b) ==
    { m \in {b.Main} \cup { b.Deps[i] : i \in 1..Len(b.Deps) } : m.Replace # <<>> }

(***************************************************************************)
(* C6: in every state of UnmarshalText, a module that is the Replace of    *)
(* the main module or of a dep has no Replace of its own.                  *)
(***************************************************************************)
ReplaceDepthOne ==
    Started => \A m \in Replaced(bi) : m.Replace[1].Replace = <<>>

\* the main module was replaced, and a line followed
MainReplaced ==
    /\ pc = "done"
    /\ ret.kind = "nil"
    /\ Len(ConsumedLines) = 3
    /\ WellFormedRep(ConsumedLines[2])
    /\ bi.Main.Replace # <<>>
    /\ bi.Main.Replace[1].Path # <<>>

(***************************************************************************)
(* C7: a mod or dep line with a number of columns other than 2 or 3 is an  *)
(* error at that line; with 2 columns the module gets path, version and an *)
(* empty checksum, with 3 columns path, version and checksum.              *)
(***************************************************************************)
ModDepColumns ==
    Started =>
        LET ls == ConsumedLines
            n == Len(ls)
        IN (n >= 1 /\ Class(ls[n]) \in {"mod", "dep"}) =>
              LET c == Cols(ls[n])
              IN IF Len(c) \notin {2, 3}
                 THEN err = ErrModCols(Len(c)) /\ lineNum = n
                 ELSE /\ err = NoErr
                      /\ Class(ls[n]) = "dep" => Len(bi.Deps) >= 1
                      /\ LET m == IF Class(ls[n]) = "mod"
                                  THEN bi.Main ELSE bi.Deps[Len(bi.Deps)]
                         IN /\ m.Path = c[1]
                            /\ m.Version = c[2]
                            /\ m.Sum = IF Len(c) = 3 THEN c[3] ELSE <<>>

\* a mod line of 4 columns was refused at line 2, after a dep line of 2 columns
FourColumnsRefused ==
    /\ pc = "done"
    /\ ret = [kind |-> ErrModCols(4).kind, got |-> 4, line |-> 2]
    /\ Len(bi.Deps) = 1
    /\ bi.Deps[1].Sum = <<>>
    /\ bi.Deps[1].Version # <<>>

(***************************************************************************)
(* C8: a => line that does not split into exactly 3 columns is the error   *)
(* "expected 3 columns for replacement" at that line, whether or not a     *)
(* module awaits its replacement, and it changes no module.                *)
(***************************************************************************)
ReplaceColumnsCheckedFirst ==
    Started =>
        LET ls == ConsumedLines
            n == Len(ls)
        IN (n >= 1 /\ Class(ls[n]) = "rep" /\ Len(Cols(ls[n])) # 3) =>
              /\ err = ErrRepCols(Len(Cols(ls[n])))
              /\ lineNum = n
              /\ bi = UnmarshalText(JoinLines(Front(ls))).bi

\* a malformed => line failed on its columns although no module awaited it
ColumnErrorWithoutTarget ==
    /\ pc = "done"
    /\ ret.kind = ErrRepCols(1).kind
    /\ last = <<>>
    /\ Len(ConsumedLines) = 3
    /\ WellFormedRep(ConsumedLines[2])
    /\ bi.Main.Replace # <<>>

(***************************************************************************)
(* C10: on an error UnmarshalText stops at the first offending line: no    *)
(* shorter prefix of the lines fails, the result is that of the text up to *)
(* and including the offending line, and the rest of the text is unread.   *)
(***************************************************************************)
StopsAtFirstError ==
    Failed =>
        LET ls == ConsumedLines
            n == Len(ls)
        IN /\ Consumed \o data = input
           /\ Consumed = JoinLines(ls)
           /\ \A k \in 0..(n - 1) :
                 UnmarshalText(JoinLines(SubSeq(ls, 1, k))).err.kind = "nil"
           /\ UnmarshalText(Consumed) = [bi |-> bi, err |-> wrap(Cur)]
           /\ last = run(enter(ZeroBuildInfo, Consumed)).last

\* an error with a well-formed dep line still unread behind it
ErrorLeavesLinesUnread ==
    /\ pc = "done"
    /\ ret.kind # "nil"
    /\ ret.line = 1
    /\ Len(LinesOf(data)) = 2
    /\ \E i \in 1..2 : Class(LinesOf(data)[i]) = "dep" /\ Len(Cols(LinesOf(data)[i])) = 3
    /\ bi.Deps = <<>>

(***************************************************************************)
(* What a BuildInfo handed to MarshalText looks like.                      *)
(***************************************************************************)
ModulesOf(b) == {b.Main} \cup { b.Deps[i] : i \in 1..Len(b.Deps) }

\* m and the modules reached from it through Replace
RECURSIVE Chain(_)
Chain(m) == {m} \cup (IF m.Replace = <<>> THEN {} ELSE Chain(m.Replace[1]))

AllModulesOf(b) == UNION { Chain(m) : m \in ModulesOf(b) }

Has(s, c) == \E i \in 1..Len(s) : s[i] = c

AllVersionsSet(b) == \A m \in AllModulesOf(b) : m.Version # <<>>

SomeVersionEmpty(b) == \E m \in AllModulesOf(b) : m.Version = <<>>

\* no replacement is itself replaced
DepthOne(b) == \A m \in ModulesOf(b) : m.Replace # <<>> => m.Replace[1].Replace = <<>>

\* no newline in the main package path, no tab or newline in a module's fields
CleanStrings(b) ==
    /\ ~Has(b.Path, newline)
    /\ \A m \in AllModulesOf(b) :
          \A f \in {m.Path, m.Version, m.Sum} : ~Has(f, tab) /\ ~Has(f, newline)

(***************************************************************************)
(* C1 as stated: for a BuildInfo in which every module (main, deps,        *)
(* replacements) has a non-empty version, UnmarshalText of MarshalText's   *)
(* output returns no error and yields an equal BuildInfo.                  *)
(***************************************************************************)
RoundTripAnyInfo ==
    (pc = "done" /\ input = MarshalText(x) /\ AllVersionsSet(x)) =>
        ret = Nil /\ bi = x

RoundTripPre(b) ==
    /\ AllVersionsSet(b)
    /\ b.Main.Path # <<>>
    /\ \A m \in ModulesOf(b) : m.Replace # <<>> => m.Sum = <<>>
    /\ DepthOne(b)
    /\ CleanStrings(b)

(***************************************************************************)
(* C1 amended: the round trip holds for a BuildInfo with every version     *)
(* non-empty when also the main module's path is non-empty, every module   *)
(* that has a replacement has an empty checksum, no replacement is itself  *)
(* replaced, the main package path holds no newline and no module field    *)
(* holds a tab or newline.                                                 *)
(***************************************************************************)
RoundTrip ==
    (pc = "done" /\ input = MarshalText(x) /\ RoundTripPre(x)) =>
        ret = Nil /\ bi = x

\* a round trip of a replaced main module and of two deps of one path
RoundTripDone ==
    /\ pc = "done"
    /\ input = MarshalText(x)
    /\ RoundTripPre(x)
    /\ x.Path # <<>>
    /\ x.Main.Replace # <<>>
    /\ Len(x.Deps) = 2
    /\ x.Deps[1].Path = x.Deps[2].Path
    /\ x.Deps[1].Sum # <<>>
    /\ bi = x

RECURSIVE DevelIn(_, _)
DevelIn(xm, ym) ==
    /\ xm.Version = <<>> => ym.Version = devel
    /\ xm.Replace # <<>> =>
          ym.Replace # <<>> /\ DevelIn(xm.Replace[1], ym.Replace[1])

DevelDeps(b, y) ==
    /\ Len(y.Deps) = Len(b.Deps)
    /\ \A i \in 1..Len(b.Deps) : DevelIn(b.Deps[i], y.Deps[i])

FixedPoint(y) == UnmarshalText(MarshalText(y)) = [bi |-> y, err |-> Nil]

(***************************************************************************)
(* C2 as stated: when some module of x has version "", that module has     *)
(* version "(devel)" in y = UnmarshalText(MarshalText(x)), and y is a      *)
(* fixed point of a further MarshalText/UnmarshalText cycle.               *)
(***************************************************************************)
DevelAnyInfo ==
    (pc = "done" /\ input = MarshalText(x) /\ SomeVersionEmpty(x)) =>
        /\ ret = Nil
        /\ DevelIn(x.Main, bi.Main)
        /\ DevelDeps(x, bi)
        /\ FixedPoint(bi)

(***************************************************************************)
(* C2 amended: for a BuildInfo x in which some module has version "", no   *)
(* replacement is itself replaced, the main package path holds no newline  *)
(* and no module field holds a tab or newline, y = UnmarshalText(          *)
(* MarshalText(x)) has version "(devel)" for every such module among the   *)
(* deps and their replacements, and for the main module and its            *)
(* replacement when the main module's path is non-empty (a main module     *)
(* with an empty path is not written and decodes as the zero module); y is *)
(* a fixed point of a further cycle.                                       *)
(***************************************************************************)
DevelNormalization ==
    (pc = "done" /\ input = MarshalText(x) /\ SomeVersionEmpty(x)
        /\ DepthOne(x) /\ CleanStrings(x)) =>
        /\ ret = Nil
        /\ x.Main.Path # <<>> => DevelIn(x.Main, bi.Main)
        /\ x.Main.Path = <<>> => bi.Main = ZeroModule
        /\ DevelDeps(x, bi)
        /\ FixedPoint(bi)

\* the main module, a dep and the dep's replacement came back as "(devel)"
DevelDecoded ==
    /\ pc = "done"
    /\ input = MarshalText(x)
    /\ DepthOne(x) /\ CleanStrings(x)
    /\ x.Main.Path # <<>> /\ x.Main.Version = <<>>
    /\ Len(x.Deps) = 1
    /\ x.Deps[1].Version = <<>>
    /\ x.Deps[1].Replace # <<>>
    /\ x.Deps[1].Replace[1].Version = <<>>
    /\ bi.Main.Version = devel
    /\ bi.Deps[1].Version = devel
    /\ bi.Deps[1].Replace[1].Version = devel
    /\ bi # x

DepLines(text) == SelectSeq(LinesOf(text), LAMBDA l : Class(l) = "dep")

\* after a successful call: one module per dep line of the input, in order
OneDepPerDepLine ==
    (pc = "done" /\ ret = Nil) =>
        /\ Len(bi.Deps) = Len(DepLines(input))
        /\ \A i \in 1..Len(bi.Deps) : bi.Deps[i].Path = Cols(DepLines(input)[i])[1]

SamePaths(b, y) ==
    /\ Len(y.Deps) = Len(b.Deps)
    /\ \A i \in 1..Len(b.Deps) : y.Deps[i].Path = b.Deps[i].Path

(***************************************************************************)
(* C9 as stated: after a successful UnmarshalText deps holds one module    *)
(* per dep line of the input, in the order of the lines, equal paths kept  *)
(* apart; and for every BuildInfo x the deps of UnmarshalText(             *)
(* MarshalText(x)) have the length and the paths, in order, of x.Deps.     *)
(***************************************************************************)
DepOrderAnyInfo ==
    /\ OneDepPerDepLine
    /\ (pc = "done" /\ input = MarshalText(x)) => SamePaths(x, bi)

(***************************************************************************)
(* C9 amended: the first part as stated; the second part for every         *)
(* BuildInfo x in which no replacement is itself replaced, the main        *)
(* package path holds no newline and no module field holds a tab or        *)
(* newline.                                                                *)
(***************************************************************************)
DepOrder ==
    /\ OneDepPerDepLine
    /\ (pc = "done" /\ input = MarshalText(x) /\ DepthOne(x) /\ CleanStrings(x)) =>
          ret = Nil /\ SamePaths(x, bi)

\* two deps of different paths, the second one replaced, came back in order
TwoDepsInOrder ==
    /\ pc = "done"
    /\ input = MarshalText(x)
    /\ DepthOne(x) /\ CleanStrings(x)
    /\ Len(x.Deps) = 2
    /\ x.Deps[1].Path # x.Deps[2].Path
    /\ x.Deps[1].Replace # <<>>
    /\ Len(DepLines(input)) = 2
    /\ SamePaths(x, bi)

(***************************************************************************)
(* C11: bytes after the last newline of the text are never read as a line: *)
(* UnmarshalText of t ++ u, u non-empty and without newline, t empty or    *)
(* ending in a newline, returns the BuildInfo and the error of             *)
(* UnmarshalText of t, also when u would be a malformed dep line.          *)
(***************************************************************************)
UnterminatedTailIgnored ==
    pc = "done" =>
        LET t == JoinLines(LinesOf(input))
            u == SubSeq(input, Len(t) + 1, Len(input))
        IN /\ t \o u = input
           /\ ~Has(u, newline)
           /\ u # <<>> => [bi |-> bi, err |-> ret] = UnmarshalText(t)

\* a text of two lines and an unterminated malformed dep line decoded without error
MalformedTailUnread ==
    /\ pc = "done"
    /\ ret = Nil
    /\ Len(LinesOf(input)) = 2
    /\ LET u == SubSeq(input, Len(JoinLines(LinesOf(input))) + 1, Len(input))
       IN Class(u) = "dep" /\ Len(Cols(u)) = 1
    /\ Len(bi.Deps) = 1

(***************************************************************************)
(* C12: ReadBuildInfo reports "not found" for every blob shorter than 32   *)
(* bytes; for a longer one it decodes exactly the bytes left after         *)
(* dropping the first 16 and the last 16 and, when they decode without     *)
(* error, reports found with the decoded BuildInfo; a blob of 32 bytes     *)
(* gives found with the empty BuildInfo.                                   *)
(***************************************************************************)
FramedBlobDecoded ==
    pc = "exit" =>
        /\ Len(blob) < 32 => out = NotFound
        /\ Len(blob) >= 32 =>
              /\ Len(input) = Len(blob) - 32
              /\ \A i \in 1..Len(input) : input[i] = blob[i + 16]
              /\ UnmarshalText(input).err = Nil =>
                    out = Found(UnmarshalText(input).bi)
        /\ Len(blob) = 32 => out = Found(ZeroBuildInfo)

\* a blob of 32 bytes gave the empty BuildInfo
EmptyPayloadFound ==
    /\ pc = "exit"
    /\ Len(blob) = 32
    /\ out.ok
    /\ out.info = <<ZeroBuildInfo>>

(***************************************************************************)
(* C13: what ReadBuildInfo returns for a blob of sufficient length whose   *)
(* payload fails to decode differs from what it returns for a blob that is *)
(* too short.                                                              *)
(***************************************************************************)
AbsentDistinctFromFailure ==
    (pc = "exit" /\ Len(blob) >= 32 /\ ret # Nil) =>
        \A s \in ShortBlobs : ReadBuildInfo(s) # out

\* the modules MarshalText writes under mod and dep, in the order it writes them
Written(b) == (IF b.Main.Path # <<>> THEN <<b.Main>> ELSE <<>>) \o b.Deps

EffectiveVersion(m) == IF m.Version = <<>> THEN devel ELSE m.Version

\* line i of ls is a => line right after the mod/dep line of the module it
\* replaces, with the 3 columns path, effective version, checksum
ReplaceLineInPlace(b, ls, i) ==
    LET j == Cardinality({ k \in 1..(i - 1) : Class(ls[k]) \in {"mod", "dep"} })
    IN /\ i >= 2
       /\ Class(ls[i - 1]) \in {"mod", "dep"}
       /\ Len(Cols(ls[i])) = 3
       /\ j <= Len(Written(b))
       /\ Written(b)[j].Replace # <<>>
       /\ Cols(ls[i]) = << Written(b)[j].Replace[1].Path,
                           EffectiveVersion(Written(b)[j].Replace[1]),
                           Written(b)[j].Replace[1].Sum >>

(***************************************************************************)
(* C14 as stated: in the output of MarshalText for any BuildInfo, every => *)
(* line directly follows the mod or dep line of the module it replaces and *)
(* has exactly 3 tab-separated columns: path, effective version, checksum. *)
(***************************************************************************)
ReplaceLinesAnyInfo ==
    (pc = "call" /\ input = MarshalText(x)) =>
        \A i \in 1..Len(LinesOf(input)) :
            Class(LinesOf(input)[i]) = "rep" => ReplaceLineInPlace(x, LinesOf(input), i)

(***************************************************************************)
(* C14 amended: the same for every BuildInfo in which no replacement is    *)
(* itself replaced, the main package path holds no newline and no module   *)
(* field holds a tab or newline.                                           *)
(***************************************************************************)
ReplaceLines ==
    (pc = "call" /\ input = MarshalText(x) /\ DepthOne(x) /\ CleanStrings(x)) =>
        \A i \in 1..Len(LinesOf(input)) :
            Class(LinesOf(input)[i]) = "rep" => ReplaceLineInPlace(x, LinesOf(input), i)

\* the text of a replaced main module and a replaced dep, with two => lines
TwoReplaceLinesWritten ==
    /\ pc = "call"
    /\ input = MarshalText(x)
    /\ DepthOne(x) /\ CleanStrings(x)
    /\ x.Main.Path # <<>> /\ x.Main.Replace # <<>>
    /\ Len(x.Deps) = 1 /\ x.Deps[1].Replace # <<>>
    /\ Cardinality({ i \in 1..Len(LinesOf(input)) : Class(LinesOf(input)[i]) = "rep" }) = 2

(***************************************************************************)
(* C15: after a successful UnmarshalText of any input, every module        *)
(* introduced by a mod or dep line has a non-empty path: the main module   *)
(* if a mod line was read, and every element of deps.                      *)
(***************************************************************************)
IntroducedPathsNonEmpty ==
    (pc = "done" /\ ret = Nil) =>
        /\ (\E i \in 1..Len(ConsumedLines) : Class(ConsumedLines[i]) = "mod")
               => bi.Main.Path # <<>>
        /\ \A i \in 1..Len(bi.Deps) : bi.Deps[i].Path # <<>>

\* the lines of the reference serialization of module m under keyword kw
RECURSIVE ReferenceLines(_, _)
ReferenceLines(kw, m) ==
    LET head == kw \o <<tab>> \o m.Path \o <<tab>> \o EffectiveVersion(m)
    IN IF m.Replace = <<>>
       THEN << head \o <<tab>> \o m.Sum >>
       ELSE << head >> \o ReferenceLines(<<"=", ">">>, m.Replace[1]) \o << <<>> >>

RECURSIVE ReferenceDeps(_)
ReferenceDeps(deps) ==
    IF deps = <<>>
    THEN <<>>
    ELSE ReferenceLines(<<"d", "e", "p">>, Head(deps)) \o ReferenceDeps(Tail(deps))

Reference(b) ==
    JoinLines((IF b.Path = <<>> THEN <<>> ELSE << pathLine \o b.Path >>)
              \o (IF b.Main.Path = <<>>
                  THEN <<>>
                  ELSE ReferenceLines(<<"m", "o", "d">>, b.Main))
              \o ReferenceDeps(b.Deps))

(***************************************************************************)
(* C16: the output of MarshalText equals the reference serialization for   *)
(* every BuildInfo: a path line iff mainPath is non-empty, the main module *)
(* under mod iff its path is non-empty, every dep in order under dep; a    *)
(* module without replace as keyword, path, effective version, checksum;   *)
(* a module with replace as keyword, path, effective version, then the     *)
(* replacement under =>, then an empty line.                               *)
(***************************************************************************)
MarshalIsReference == pc = "call" => input = Reference(x)

\* a main module with empty path but a version and a replace was left out,
\* and a replaced dep was written on three lines, the last one empty
MainOmittedDepReplaced ==
    /\ pc = "call"
    /\ x.Main.Path = <<>> /\ x.Main.Version # <<>> /\ x.Main.Replace # <<>>
    /\ Len(x.Deps) = 1 /\ x.Deps[1].Replace # <<>>
    /\ Len(LinesOf(input)) = 3
    /\ Class(LinesOf(input)[1]) = "dep"
    /\ Len(Cols(LinesOf(input)[1])) = 2
    /\ Class(LinesOf(input)[2]) = "rep"
    /\ LinesOf(input)[3] = <<>>

\* the index of the last line of ls of class c, 0 if there is none
LastOf(ls, c) ==
    LET I == { i \in 1..Len(ls) : Class(ls[i]) = c }
    IN IF I = {} THEN 0 ELSE CHOOSE i \in I : \A j \in I : j <= i

\* the module a well-formed mod, dep or => line spells, without replace
Spelled(line) ==
    LET c == Cols(line)
    IN Module(c[1], c[2], IF Len(c) = 3 THEN c[3] ELSE <<>>, <<>>)

\* the => lines of ls after line k with no dep or => line in between
AttachedAfter(ls, k) ==
    { j \in (k + 1)..Len(ls) :
        /\ Class(ls[j]) = "rep"
        /\ \A i \in (k + 1)..(j - 1) : Class(ls[i]) \notin {"dep", "rep"} }

(***************************************************************************)
(* C17: after a successful decode of an input with several mod lines the   *)
(* main module has the path, version and checksum of the last mod line,    *)
(* and a replace only if a => line was attached after that last mod line;  *)
(* likewise mainPath is what the last path line gives.                     *)
(***************************************************************************)
LastModLineWins ==
    (pc = "done" /\ ret = Nil) =>
        LET ls == ConsumedLines
            k == LastOf(ls, "mod")
            p == LastOf(ls, "path")
        IN /\ k = 0 => bi.Main = ZeroModule
           /\ k > 0 =>
                 /\ [bi.Main EXCEPT !.Replace = <<>>] = Spelled(ls[k])
                 /\ AttachedAfter(ls, k) = {} => bi.Main.Replace = <<>>
                 /\ \A j \in AttachedAfter(ls, k) :
                        bi.Main.Replace = << Spelled(ls[j]) >>
           /\ p = 0 => bi.Path = <<>>
           /\ p > 0 => bi.Path = SubSeq(ls[p], Len(pathLine) + 1, Len(ls[p]))

\* a replaced main module was overwritten by a second mod line
SecondModDropsReplace ==
    /\ pc = "done" /\ ret = Nil
    /\ Len(ConsumedLines) = 3
    /\ Class(ConsumedLines[1]) = "mod" /\ Len(Cols(ConsumedLines[1])) = 3
    /\ WellFormedRep(ConsumedLines[2])
    /\ Class(ConsumedLines[3]) = "mod" /\ Len(Cols(ConsumedLines[3])) = 2
    /\ bi.Main.Replace = <<>> /\ bi.Main.Sum = <<>>

(***************************************************************************)
(* C18: UnmarshalText discards what the receiver held before the call:     *)
(* whatever the receiver held, the BuildInfo and the error after the call  *)
(* are those of decoding the same text into an empty BuildInfo (an empty   *)
(* input leaves the receiver empty), so deps never accumulate.             *)
(***************************************************************************)
ReceiverDiscarded ==
    pc = "done" =>
        /\ [bi |-> bi, err |-> ret] = UnmarshalText(input)
        /\ \A b \in Receivers : UnmarshalInto(b, input) = UnmarshalText(input)
        /\ input = <<>> => bi = ZeroBuildInfo

\* a receiver that held a path, a main module and a dep decoded one dep line
DepsNotAccumulated ==
    /\ pc = "done" /\ ret = Nil
    /\ recv.Path # <<>> /\ recv.Main # ZeroModule /\ Len(recv.Deps) = 1
    /\ Len(ConsumedLines) = 1 /\ Class(ConsumedLines[1]) = "dep"
    /\ bi = BuildInfo(<<>>, ZeroModule, << Spelled(ConsumedLines[1]) >>)

====
